---- MODULE Spec2Model ----
(***************************************************************************)
(* Model of lib/DC/DCFunction.cpp: the per-function translator that walks  *)
(* MC basic blocks, keeps one IR basic block per code address, and         *)
(* interprets the semantics tape of every decoded instruction.             *)
(*                                                                         *)
(* IR basic blocks are sequences of instructions; a block is named by its  *)
(* index in `blocks` (0 is the null pointer).                              *)
(***************************************************************************)
EXTENDS Integers, Sequences, FiniteSets, TLC

\* ------------------------------------------------------------------ bounds
MaxAddr == 1          \* code addresses MC blocks start at and branch to: 0..MaxAddr
MaxInsts == 2         \* decoded instructions translated per function
MaxSwitches == 2      \* blocks opened per function (SwitchToBasicBlock calls)
MaxStart == 0         \* the MC function starts at an address in 0..MaxStart
MaxWidth == 6         \* bit widths of the values PUT_RC is given: 1..MaxWidth

Addrs == 0..MaxAddr

\* ------------------------------------------------------ IR instructions
\* One IR instruction: an opcode name and two integer operands.
I(op, a, b) == [op |-> op, a |-> a, b |-> b]

TrapI == I("trap", 0, 0)
UnreachableI == I("unreachable", 0, 0)
RetI == I("ret", 0, 0)
BrI(bb) == I("br", bb, 0)

IsTerminator(ins) == ins.op \in {"br", "ret", "unreachable"}

\* BasicBlock::getTerminator(): the last instruction when it is a terminator.
HasTerminator(b) == Len(b) > 0 /\ IsTerminator(b[Len(b)])

\* The body getOrCreateBasicBlock gives a fresh block.
Placeholder == <<TrapI, UnreachableI>>

\* ------------------------------------------------------------- values
\* An IR value on the value stack: a ConstantInt (const, with its value v)
\* or the result of an instruction; ty/w are its type kind and bit width.
Val(c, v, ty, w) == [const |-> c, v |-> v, ty |-> ty, w |-> w]

NullBB == 0
EntryBB == 1
ExitBB == 2
DiffExitBB == 3

\* ------------------------------------------------------ semantic opcodes
\* ISD opcodes the model uses (below BUILTIN_OP_END), the target range
\* [BUILTIN_OP_END, DC_OPCODE_START) and the DCINS pseudo-opcodes.
ISD_ADD == 1
ISD_BR == 2
ISD_BRIND == 3
ISD_TRAP == 4
ISD_SMUL_LOHI == 5
ISD_UMUL_LOHI == 6
ISD_SETCC == 7            \* an ISD opcode translateOpcode has no case for
BUILTIN_OP_END == 10
TGT_OP == 11              \* an opcode of the target range
DC_OPCODE_START == 20
END_OF_INSTRUCTION == 20
PUT_RC == 21
PUT_REG == 22
GET_RC == 23
GET_REG == 24
CUSTOM_OP == 25
COMPLEX_PATTERN == 26
PREDICATE == 27
CONSTANT_OP == 28
MOV_CONSTANT == 29
IMPLICIT == 30

\* Predicate ids (TargetOpcode::Predicate): load is handled, PredOther is
\* an id translatePredicate has no case for.
PredLoad == 1
PredOther == 2

\* Value-type tags: an integer type is tagged by its bit width.
VT_Other == 0
VT_i2 == 2
VT_i4 == 4

\* Registers: the program counter and two general registers, all of
\* RegBits bits.
PC == 0
R1 == 1
R2 == 2
RegBits == 4
Unknown == 0 - 1          \* the run-time value of a value not known statically

\* MC opcodes of the modelled target.
MOV == 0
JMP == 1
JMPR == 2
JMPC == 3
BADOP == 4
PRED == 5
HOOK == 6
TGTOP == 7
NOP == 8
UNK == 9
NumOpcodes == 10          \* MC blocks hold the opcodes 0..NumOpcodes - 1
\* The wide multiplies, translated on their own: signed and unsigned, with
\* halves of equal and of unequal widths.
MULS == 10
MULU == 11
MULSW == 12
MULUW == 13

NoSema == 0 - 1           \* ~0U: the opcode has no semantics

\* The semantics tape. Each segment is opcode, result VT, inline operands.
SemanticsArray ==
  << GET_RC, VT_i2, 1, PUT_RC, VT_i4, 0, END_OF_INSTRUCTION,             \* 0  MOV
     CONSTANT_OP, VT_i4, 0, ISD_BR, VT_Other, END_OF_INSTRUCTION,        \* 7  JMP
     GET_REG, VT_i4, R1, ISD_BRIND, VT_Other, END_OF_INSTRUCTION,        \* 13 JMPR
     MOV_CONSTANT, VT_i4, 0, ISD_BRIND, VT_Other, END_OF_INSTRUCTION,    \* 19 JMPC
     GET_REG, VT_i4, R1, ISD_SETCC, VT_i4, END_OF_INSTRUCTION,           \* 25 BADOP
     GET_REG, VT_i4, R1, PREDICATE, VT_i4, PredLoad,
       PREDICATE, VT_i4, PredOther, END_OF_INSTRUCTION,                  \* 31 PRED
     CUSTOM_OP, VT_i4, 0, 0, COMPLEX_PATTERN, VT_i4, 0,
       IMPLICIT, VT_Other, R2, END_OF_INSTRUCTION,                       \* 41 HOOK
     TGT_OP, VT_i4, ISD_TRAP, VT_Other, END_OF_INSTRUCTION,              \* 52 TGTOP
     ISD_SMUL_LOHI, VT_i2, VT_i2, END_OF_INSTRUCTION,                    \* 57 MULS
     ISD_UMUL_LOHI, VT_i2, VT_i2, END_OF_INSTRUCTION,                    \* 61 MULU
     ISD_SMUL_LOHI, VT_i4, VT_i2, END_OF_INSTRUCTION,                    \* 65 MULSW
     ISD_UMUL_LOHI, VT_i2, VT_i4, END_OF_INSTRUCTION >>                  \* 69 MULUW

\* OpcodeToSemaIdx, indexed by MC opcode (0-based).
OpcodeToSemaIdx == <<0, 7, 13, 19, 25, 31, 41, 52, 0, NoSema, 57, 61, 65, 69>>

\* ConstantArray: the pool MOV_CONSTANT reads.
ConstantArray == <<1>>

\* Encoded size of each MC opcode, in address units.
InstSize == <<2, 1, 1, 1, 1, 1, 1, 1, 1, 1, 1, 1, 1, 1>>

\* MC opcodes translateTargetInst handles end to end.
TargetInsts == {NOP}

\* The decoded instructions an MC block may hold next, at address addr.
DecodedInsts(addr) ==
  { d \in { [Address |-> addr, Size |-> InstSize[o + 1], Opcode |-> o, Imm |-> i] :
             o \in 0..(NumOpcodes - 1), i \in Addrs } :
      d.Opcode = JMP \/ d.Imm = 0 }

NoInst == [Address |-> 0 - 1, Size |-> 0, Opcode |-> 0 - 1, Imm |-> 0]
NoMCBB == [StartAddr |-> 0 - 1, EndAddr |-> 0 - 1]

\* ---------------------------------------------------------------- state
VARIABLES
  EnableRegSetDiff,         \* -enable-dc-regset-diff
  EnableInstAddrSave,       \* -enable-dc-pc-save
  TranslateUnknownToUndef,  \* -dc-translate-unknown-to-undef
  blocks,                   \* the IR function: block id -> instructions
  BBByAddr,                 \* code address -> block id
  CallBBs,                  \* the recorded call blocks, in order
  TheBB,                    \* the current block (NullBB when none)
  InsertBB,                 \* the block the Builder appends to
  TheMCBB,                  \* the current MC block (NoMCBB when none)
  CurrentInst,              \* the decoded instruction being translated
  Idx,                      \* cursor into SemanticsArray
  Vals,                     \* the value stack
  Success,                  \* what the last translateInst returned
  regPC,                    \* DRS: the run-time value last written to PC
  drsLog,                   \* DRS: the block/function notifications received
  opened,                   \* the blocks SwitchToBasicBlock has opened
  nInsts,                   \* decoded instructions handed to translateInst
  nSwitches,                \* blocks opened so far
  pc                        \* where the translation of the function stands

vars == <<EnableRegSetDiff, EnableInstAddrSave, TranslateUnknownToUndef, blocks,
          BBByAddr, CallBBs, TheBB, InsertBB, TheMCBB, CurrentInst, Idx, Vals,
          Success, regPC, drsLog, opened, nInsts, nSwitches, pc>>

flags == <<EnableRegSetDiff, EnableInstAddrSave, TranslateUnknownToUndef>>

\* The part of the state the translator's methods thread through their
\* calls; abort records a failed assertion.
Cur ==
  [blocks |-> blocks, BBByAddr |-> BBByAddr, CallBBs |-> CallBBs, TheBB |-> TheBB,
   InsertBB |-> InsertBB, Idx |-> Idx, Vals |-> Vals, regPC |-> regPC,
   drsLog |-> drsLog, opened |-> opened, abort |-> FALSE]

Commit(S) ==
  /\ blocks' = S.blocks
  /\ BBByAddr' = S.BBByAddr
  /\ CallBBs' = S.CallBBs
  /\ TheBB' = S.TheBB
  /\ InsertBB' = S.InsertBB
  /\ Idx' = S.Idx
  /\ Vals' = S.Vals
  /\ regPC' = S.regPC
  /\ drsLog' = S.drsLog
  /\ opened' = S.opened

\* BasicBlock::Create: a new empty block at the end of the function.
CreateBlock(S) == [S EXCEPT !.blocks = Append(@, <<>>)]
LastBlock(S) == Len(S.blocks)

\* An instruction appended to block bb.
Emit(S, bb, ins) == [S EXCEPT !.blocks[bb] = Append(@, ins)]

\* Builder->Create...: an instruction at the Builder's insertion point.
BuilderEmit(S, ins) == Emit(S, S.InsertBB, ins)

\* ------------------------------------------------ register semantics (DRS)
\* A call DRS receives, with the block it is given (NullBB when none).
DRSNotify(S, what, bb) == [S EXCEPT !.drsLog = Append(@, [call |-> what, bb |-> bb])]

\* DRS.getReg: reads the register at the insertion point.
getRegState(S, reg) == BuilderEmit(S, I("getreg", reg, 0))
getRegValue(S, reg) == Val(FALSE, IF reg = PC THEN S.regPC ELSE Unknown, "int", RegBits)

\* DRS.setReg: writes the register at the insertion point.
setReg(S, reg, val) ==
  LET S1 == BuilderEmit(S, I("setreg", reg, val.v))
  IN  IF reg = PC THEN [S1 EXCEPT !.regPC = val.v] ELSE S1

\* -------------------------------------------------------- basic blocks
\* Mutant: the map is not consulted, every call creates a block.
getOrCreateBasicBlock_AlwaysCreate(S, Addr) ==
  LET S1 == CreateBlock(S)
      BB == LastBlock(S1)
      S2 == Emit(Emit(S1, BB, TrapI), BB, UnreachableI)
  IN  [S |-> [S2 EXCEPT !.BBByAddr =
                  [a \in (DOMAIN S.BBByAddr) \cup {Addr} |->
                     IF a = Addr THEN BB ELSE S.BBByAddr[a]]],
       BB |-> BB]

getOrCreateBasicBlock(S, Addr) ==
  IF Addr \in DOMAIN S.BBByAddr /\ S.BBByAddr[Addr] # NullBB
  THEN [S |-> S, BB |-> S.BBByAddr[Addr]]
  ELSE LET S1 == CreateBlock(S)
           BB == LastBlock(S1)
           S2 == Emit(Emit(S1, BB, TrapI), BB, UnreachableI)
       IN  [S |-> [S2 EXCEPT !.BBByAddr =
                       [a \in (DOMAIN S.BBByAddr) \cup {Addr} |->
                          IF a = Addr THEN BB ELSE S.BBByAddr[a]]],
            BB |-> BB]

\* Mutant: only the first instruction of the placeholder is erased.
prepareBasicBlockForInsertion_EraseOne(S, BB) ==
  IF Len(S.blocks[BB]) = 2 /\ S.blocks[BB][2].op = "unreachable"
  THEN [S EXCEPT !.blocks[BB] = Tail(@)]
  ELSE [S EXCEPT !.abort = TRUE]

\* Mutant: no assertion, the first two instructions are erased regardless.
prepareBasicBlockForInsertion_NoAssert(S, BB) ==
  [S EXCEPT !.blocks[BB] = IF Len(@) >= 2 THEN Tail(Tail(@)) ELSE <<>>]

prepareBasicBlockForInsertion(S, BB) ==
  IF Len(S.blocks[BB]) = 2 /\ S.blocks[BB][2].op = "unreachable"
  THEN [S EXCEPT !.blocks[BB] = Tail(Tail(@))]
  ELSE [S EXCEPT !.abort = TRUE]

SwitchToBasicBlock(S, BeginAddr) ==
  LET g == getOrCreateBasicBlock(S, BeginAddr)
      S1 == prepareBasicBlockForInsertion([g.S EXCEPT !.TheBB = g.BB], g.BB)
      S2 == DRSNotify([S1 EXCEPT !.InsertBB = g.BB, !.opened = @ \cup {g.BB}],
                      "SwitchToBasicBlock", g.BB)
  IN  IF S1.abort THEN S1
      ELSE setReg(S2, PC, Val(TRUE, BeginAddr, "int", RegBits))

\* Mutant: the fallthrough branch is appended whether or not the block
\* has a terminator.
FinalizeBasicBlock_AlwaysBr(S, EndAddr) ==
  LET g == getOrCreateBasicBlock(S, EndAddr)
  IN  [DRSNotify(Emit(g.S, S.TheBB, BrI(g.BB)), "FinalizeBasicBlock", NullBB)
         EXCEPT !.TheBB = NullBB]

FinalizeBasicBlock(S, EndAddr) ==
  LET g == getOrCreateBasicBlock(S, EndAddr)
      S1 == IF HasTerminator(S.blocks[S.TheBB])
            THEN S
            ELSE Emit(g.S, S.TheBB, BrI(g.BB))
  IN  [DRSNotify(S1, "FinalizeBasicBlock", NullBB) EXCEPT !.TheBB = NullBB]

\* A call of Target with the regset argument. A target is a known function
\* (fn = TRUE, at address addr) or the result of translate_at.
CallI(Target) == I("call", IF Target.fn THEN 1 ELSE 0, Target.addr)
FunctionAt(Addr) == [fn |-> TRUE, addr |-> Addr]

\* Mutant: DRS is not told that the block changed.
insertCallBB_NoNotify(S, Target) ==
  LET S1 == CreateBlock(S)
      CallBB == LastBlock(S1)
      S2 == Emit(S1, CallBB, CallI(Target))
      S3 == BuilderEmit(S2, BrI(CallBB))
      S4 == CreateBlock(S3)
      NewBB == LastBlock(S4)
      S5 == [S4 EXCEPT !.TheBB = NewBB]
      S6 == Emit([S5 EXCEPT !.InsertBB = NewBB], CallBB, BrI(NewBB))
  IN  IF S.InsertBB # S.TheBB
      THEN [S3 EXCEPT !.abort = TRUE]
      ELSE [S6 EXCEPT !.CallBBs = Append(@, CallBB)]

\* Mutant: the call block is never branched into its successor.
insertCallBB_NoBr(S, Target) ==
  LET S1 == CreateBlock(S)
      CallBB == LastBlock(S1)
      S2 == Emit(S1, CallBB, CallI(Target))
      S3 == BuilderEmit(S2, BrI(CallBB))
      S4 == CreateBlock(S3)
      NewBB == LastBlock(S4)
      S5 == DRSNotify(DRSNotify([S4 EXCEPT !.TheBB = NewBB], "FinalizeBasicBlock", NullBB),
                      "SwitchToBasicBlock", NewBB)
      S6 == [S5 EXCEPT !.InsertBB = NewBB]
  IN  IF S.InsertBB # S.TheBB
      THEN [S3 EXCEPT !.abort = TRUE]
      ELSE [S6 EXCEPT !.CallBBs = Append(@, CallBB)]

insertCallBB(S, Target) ==
  LET S1 == CreateBlock(S)
      CallBB == LastBlock(S1)
      S2 == Emit(S1, CallBB, CallI(Target))
      S3 == BuilderEmit(S2, BrI(CallBB))
      S4 == CreateBlock(S3)
      NewBB == LastBlock(S4)
      S5 == DRSNotify(DRSNotify([S4 EXCEPT !.TheBB = NewBB], "FinalizeBasicBlock", NullBB),
                      "SwitchToBasicBlock", NewBB)
      S6 == Emit([S5 EXCEPT !.InsertBB = NewBB], CallBB, BrI(NewBB))
  IN  IF S.InsertBB # S.TheBB
      THEN [S3 EXCEPT !.abort = TRUE]
      ELSE [S6 EXCEPT !.CallBBs = Append(@, CallBB)]

insertTranslateAt(S, OrigTarget) ==
  BuilderEmit(BuilderEmit(BuilderEmit(S, I("inttoptr", 0, OrigTarget.v)),
                          I("translate_at", 0, OrigTarget.v)),
              I("bitcast", 0, 0))

\* Mutant: every target is taken for the address of a known function.
insertCall_NeverTranslateAt(S, CallTarget) ==
  insertCallBB(S, FunctionAt(CallTarget.v))

\* Mutant: every target, constant or not, goes through translate_at.
insertCall_AlwaysTranslateAt(S, CallTarget) ==
  insertCallBB(insertTranslateAt(S, CallTarget), [fn |-> FALSE, addr |-> CallTarget.v])

insertCall(S, CallTarget) ==
  IF CallTarget.const
  THEN insertCallBB(S, FunctionAt(CallTarget.v))
  ELSE insertCallBB(insertTranslateAt(S, CallTarget),
                    [fn |-> FALSE, addr |-> CallTarget.v])

\* Mutant: the tail call leaves through the exit block instead of returning.
createExternalTailCallBB_BrExit(S, Addr) ==
  LET S1 == SwitchToBasicBlock(S, Addr)
      S2 == insertCallBB(S1, FunctionAt(Addr))
  IN  IF S1.abort THEN S1
      ELSE IF S2.abort THEN S2
      ELSE BuilderEmit(S2, BrI(ExitBB))

createExternalTailCallBB(S, Addr) ==
  LET S1 == SwitchToBasicBlock(S, Addr)
      S2 == insertCallBB(S1, FunctionAt(Addr))
  IN  IF S1.abort THEN S1
      ELSE IF S2.abort THEN S2
      ELSE BuilderEmit(S2, RetI)

\* ------------------------------------------------------- the tape reader
\* Next(): SemanticsArray[Idx++]; Idx is 0-based.
Tok(i) == SemanticsArray[i + 1]
Skip(S, n) == [S EXCEPT !.Idx = @ + n]

\* ---------------------------------------------------------- value stack
registerResult(S, V) == [S EXCEPT !.Vals = Append(@, V)]
TopVal(S) == S.Vals[Len(S.Vals)]
PopVal(S) == [S EXCEPT !.Vals = SubSeq(@, 1, Len(@) - 1)]

\* MC operands of the current instruction.
getRegOp(inst, MIOperandNo) == IF MIOperandNo = 0 THEN R1 ELSE R2
getImmOp(inst, MIOperandNo) == inst.Imm

IntVal(c, v, w) == Val(c, v, "int", w)

\* The result of one translateOpcode call: the state, and what it returned.
Ret(S, ok) == [S |-> S, ok |-> ok]

\* translateBinOp: two operands, one result; constants are folded.
translateBinOp(S) ==
  LET V1 == TopVal(S)
      S1 == PopVal(S)
      V2 == TopVal(S1)
      S2 == PopVal(S1)
  IN  IF V1.const /\ V2.const
      THEN registerResult(S2, IntVal(TRUE, V1.v + V2.v, V1.w))
      ELSE registerResult(BuilderEmit(S2, I("binop", 0, 0)), IntVal(FALSE, Unknown, V1.w))

\* ------------------------------------------------------ integer arithmetic
RECURSIVE Pow2(_)
Pow2(n) == IF n = 0 THEN 1 ELSE 2 * Pow2(n - 1)

\* The IR casts and operators on bit patterns (unsigned values of a width).
SExt(v, w, W) == IF v >= Pow2(w - 1) THEN v + Pow2(W) - Pow2(w) ELSE v
ZExt(v, w, W) == v
Trunc(v, w) == v % Pow2(w)
LShr(v, n) == v \div Pow2(n)
Mul(a, b, W) == (a * b) % Pow2(W)

\* Mutant: the signed multiply zero-extends its factors.
translateMulLoHi_ZExtAlways(S, signed, lo) ==
  LET hi == Tok(S.Idx)
      W == lo + hi
      S0 == Skip(S, 1)
      V1 == TopVal(S0)
      V2 == TopVal(PopVal(S0))
      S1 == PopVal(PopVal(S0))
      known == V1.v # Unknown /\ V2.v # Unknown
      folded == V1.const /\ V2.const
      Full == IF known THEN Mul(ZExt(V1.v, V1.w, W), ZExt(V2.v, V2.w, W), W) ELSE Unknown
      S2 == IF V1.const THEN S1 ELSE BuilderEmit(S1, I("zext", W, 0))
      S3 == IF V2.const THEN S2 ELSE BuilderEmit(S2, I("zext", W, 0))
      S4 == IF folded THEN S3 ELSE BuilderEmit(S3, I("mul", W, 0))
      S5 == IF folded THEN S4 ELSE BuilderEmit(S4, I("trunc", lo, 0))
      S6 == registerResult(S5, IntVal(folded, IF known THEN Trunc(Full, lo) ELSE Unknown, lo))
      S7 == IF folded THEN S6
            ELSE BuilderEmit(BuilderEmit(S6, I("lshr", lo, 0)), I("trunc", hi, 0))
  IN  registerResult(S7, IntVal(folded,
                                IF known THEN Trunc(LShr(Full, lo), hi) ELSE Unknown, hi))

\* The SMUL_LOHI (signed) and UMUL_LOHI cases: both factors extended to
\* the sum of the two result widths, multiplied, and the product split
\* into the low result, registered first, and the high result. Constants
\* are folded by the builder.
translateMulLoHi(S, signed, lo) ==
  LET hi == Tok(S.Idx)
      W == lo + hi
      S0 == Skip(S, 1)
      V1 == TopVal(S0)
      V2 == TopVal(PopVal(S0))
      S1 == PopVal(PopVal(S0))
      known == V1.v # Unknown /\ V2.v # Unknown
      folded == V1.const /\ V2.const
      Op1 == IF signed THEN SExt(V1.v, V1.w, W) ELSE ZExt(V1.v, V1.w, W)
      Op2 == IF signed THEN SExt(V2.v, V2.w, W) ELSE ZExt(V2.v, V2.w, W)
      Full == IF known THEN Mul(Op1, Op2, W) ELSE Unknown
      ext == IF signed THEN "sext" ELSE "zext"
      S2 == IF V1.const THEN S1 ELSE BuilderEmit(S1, I(ext, W, 0))
      S3 == IF V2.const THEN S2 ELSE BuilderEmit(S2, I(ext, W, 0))
      S4 == IF folded THEN S3 ELSE BuilderEmit(S3, I("mul", W, 0))
      S5 == IF folded THEN S4 ELSE BuilderEmit(S4, I("trunc", lo, 0))
      S6 == registerResult(S5, IntVal(folded, IF known THEN Trunc(Full, lo) ELSE Unknown, lo))
      S7 == IF folded THEN S6
            ELSE BuilderEmit(BuilderEmit(S6, I("lshr", lo, 0)), I("trunc", hi, 0))
  IN  registerResult(S7, IntVal(folded,
                                IF known THEN Trunc(LShr(Full, lo), hi) ELSE Unknown, hi))

\* The load case of translatePredicate.
translatePredicateLoad(S, vt) ==
  LET Ptr == TopVal(S)
      S1 == PopVal(S)
      S2 == IF Ptr.ty # "ptr" /\ ~Ptr.const THEN BuilderEmit(S1, I("inttoptr", 0, Ptr.v)) ELSE S1
  IN  registerResult(BuilderEmit(S2, I("load", 0, 0)), IntVal(FALSE, Unknown, vt))

translatePredicate(S, Pred, vt) ==
  IF Pred = PredLoad THEN Ret(translatePredicateLoad(S, vt), TRUE) ELSE Ret(S, FALSE)

\* The coercion steps of the PUT_RC case on the popped value Res: the IR
\* they emit and the value they leave.
coercePutRC(S, RegNo, Res) ==
  LET S2 == IF Res.ty = "ptr" THEN BuilderEmit(S, I("ptrtoint", 0, 0)) ELSE S
      R2v == IF Res.ty = "ptr" THEN IntVal(FALSE, Res.v, RegBits) ELSE Res
      S3 == IF R2v.ty # "int" THEN BuilderEmit(S2, I("bitcast", 0, 0)) ELSE S2
      R3v == IF R2v.ty # "int" THEN IntVal(FALSE, R2v.v, R2v.w) ELSE R2v
      S4 == IF R3v.w < RegBits
            THEN BuilderEmit(getRegState(S3, RegNo), I("insertbits", RegNo, 0))
            ELSE S3
      R4v == IF R3v.w < RegBits THEN IntVal(FALSE, Unknown, RegBits) ELSE R3v
  IN  [S |-> S4, V |-> R4v]

\* Mutant: the coerced value is written without the type assertion.
translatePutRC_NoAssert(S, inst) ==
  LET RegNo == getRegOp(inst, Tok(S.Idx))
      S0 == Skip(S, 1)
      c == coercePutRC(PopVal(S0), RegNo, TopVal(S0))
  IN  Ret(setReg(c.S, RegNo, c.V), TRUE)

\* The PUT_RC case: coerce the popped value to the register's integer type.
translatePutRC(S, inst) ==
  LET RegNo == getRegOp(inst, Tok(S.Idx))
      S0 == Skip(S, 1)
      c == coercePutRC(PopVal(S0), RegNo, TopVal(S0))
  IN  IF c.V.ty = "int" /\ c.V.w = RegBits
      THEN Ret(setReg(c.S, RegNo, c.V), TRUE)
      ELSE Ret([c.S EXCEPT !.abort = TRUE], TRUE)

\* The GET_RC case: the register as an integer, truncated to the result type.
translateGetRC(S, inst, vt) ==
  LET RegNo == getRegOp(inst, Tok(S.Idx))
      S1 == getRegState(Skip(S, 1), RegNo)
      S2 == IF vt < RegBits THEN BuilderEmit(S1, I("trunc", vt, 0)) ELSE S1
      w == IF vt < RegBits THEN vt ELSE RegBits
  IN  Ret(registerResult(S2, IntVal(FALSE, getRegValue(S1, RegNo).v, w)), TRUE)

\* The BRIND case.
translateBRIND(S) ==
  LET Op1 == TopVal(S)
      S1 == insertCall(setReg(PopVal(S), PC, Op1), Op1)
  IN  Ret(IF S1.abort THEN S1 ELSE BuilderEmit(S1, BrI(ExitBB)), TRUE)

\* Mutant: the branch leaves for the exit block instead of the target's block.
translateBR_ToExit(S) ==
  LET Op1 == TopVal(S)
      S1 == setReg(PopVal(S), PC, Op1)
  IN  IF ~Op1.const THEN Ret([PopVal(S) EXCEPT !.abort = TRUE], TRUE)
      ELSE Ret(BuilderEmit(S1, BrI(ExitBB)), TRUE)

\* The BR case; cast<ConstantInt> asserts that the operand is a constant.
translateBR(S) ==
  LET Op1 == TopVal(S)
      S1 == setReg(PopVal(S), PC, Op1)
      g == getOrCreateBasicBlock(S1, Op1.v)
  IN  IF ~Op1.const THEN Ret([PopVal(S) EXCEPT !.abort = TRUE], TRUE)
      ELSE Ret(BuilderEmit(g.S, BrI(g.BB)), TRUE)

\* translateOpcode. hookOK is the answer of the target hook the opcode
\* delegates to, if it delegates to one. S.Idx is past the opcode token.
translateOpcode(S, Opcode, inst, hookOK) ==
  LET vt == Tok(S.Idx)
      S1 == Skip(S, 1)
  IN  IF Opcode >= BUILTIN_OP_END /\ Opcode < DC_OPCODE_START
      THEN Ret(IF hookOK THEN BuilderEmit(S1, I("targetop", Opcode, 0)) ELSE S1, hookOK)
      ELSE CASE Opcode = ISD_ADD -> Ret(translateBinOp(S1), TRUE)
             [] Opcode = ISD_BRIND -> translateBRIND(S1)
             [] Opcode = ISD_BR -> translateBR(S1)
             [] Opcode = ISD_TRAP -> Ret(BuilderEmit(S1, TrapI), TRUE)
             [] Opcode = ISD_SMUL_LOHI -> Ret(translateMulLoHi(S1, TRUE, vt), TRUE)
             [] Opcode = ISD_UMUL_LOHI -> Ret(translateMulLoHi(S1, FALSE, vt), TRUE)
             [] Opcode = PUT_RC -> translatePutRC(S1, inst)
             [] Opcode = PUT_REG ->
                  Ret(setReg(PopVal(Skip(S1, 1)), Tok(S1.Idx), TopVal(S1)), TRUE)
             [] Opcode = GET_RC -> translateGetRC(S1, inst, vt)
             [] Opcode = GET_REG ->
                  Ret(registerResult(getRegState(Skip(S1, 1), Tok(S1.Idx)),
                                     getRegValue(S1, Tok(S1.Idx))), TRUE)
             [] Opcode = CUSTOM_OP ->
                  IF hookOK
                  THEN Ret(registerResult(BuilderEmit(Skip(S1, 2), I("customop", 0, 0)),
                                          IntVal(FALSE, Unknown, vt)), TRUE)
                  ELSE Ret(Skip(S1, 2), FALSE)
             [] Opcode = COMPLEX_PATTERN ->
                  IF hookOK
                  THEN Ret(registerResult(BuilderEmit(Skip(S1, 1), I("complexpattern", 0, 0)),
                                          IntVal(FALSE, Unknown, vt)), TRUE)
                  ELSE Ret(Skip(S1, 1), FALSE)
             [] Opcode = PREDICATE -> translatePredicate(Skip(S1, 1), Tok(S1.Idx), vt)
             [] Opcode = CONSTANT_OP ->
                  Ret(registerResult(Skip(S1, 1), IntVal(TRUE, getImmOp(inst, Tok(S1.Idx)), vt)),
                      TRUE)
             [] Opcode = MOV_CONSTANT ->
                  Ret(registerResult(Skip(S1, 1),
                                     IntVal(TRUE, ConstantArray[Tok(S1.Idx) + 1], vt)), TRUE)
             [] Opcode = IMPLICIT ->
                  Ret(IF hookOK THEN BuilderEmit(Skip(S1, 1), I("implicit", Tok(S1.Idx), 0))
                      ELSE Skip(S1, 1), TRUE)
             [] OTHER -> Ret(S1, FALSE)

\* Mutant: the undef policy emits its trap but leaves Success as it was.
translateInstTail_KeepFalse(S, ok, undef) ==
  LET S1 == IF ~ok /\ undef
            THEN BuilderEmit(BuilderEmit(S, TrapI), UnreachableI)
            ELSE S
  IN  [S |-> [S1 EXCEPT !.Vals = <<>>], Success |-> ok]

\* Mutant: Vals is not cleared when translateInst returns.
translateInstTail_NoClear(S, ok, undef) ==
  LET S1 == IF ~ok /\ undef
            THEN BuilderEmit(BuilderEmit(S, TrapI), UnreachableI)
            ELSE S
  IN  [S |-> S1, Success |-> (ok \/ undef)]

\* Mutant: a failed instruction takes back the last IR instruction it
\* emitted.
translateInstTail_RollBack(S, ok, undef) ==
  LET S1 == IF ~ok /\ undef
            THEN BuilderEmit(BuilderEmit(S, TrapI), UnreachableI)
            ELSE IF ~ok
            THEN [S EXCEPT !.blocks[S.InsertBB] = SubSeq(@, 1, Len(@) - 1)]
            ELSE S
  IN  [S |-> [S1 EXCEPT !.Vals = <<>>], Success |-> (ok \/ undef)]

\* Lines 261-273 of translateInst: the undef policy, then the clean-up.
\* Success is what translateInst returns.
translateInstTail(S, ok, undef) ==
  LET S1 == IF ~ok /\ undef
            THEN BuilderEmit(BuilderEmit(S, TrapI), UnreachableI)
            ELSE S
  IN  [S |-> [S1 EXCEPT !.Vals = <<>>], Success |-> (ok \/ undef)]

\* Mutant: PC is read but the incremented value is never written back.
IncrementPC_NoWrite(S, Size) == getRegState(S, PC)

\* The PC increment that opens the interpretation of a tape segment.
IncrementPC(S, Size) ==
  LET OldPC == getRegValue(S, PC)
      S1 == getRegState(S, PC)
      S2 == IF OldPC.const THEN S1 ELSE BuilderEmit(S1, I("add", Size, 0))
      NewV == IF OldPC.v = Unknown THEN Unknown ELSE OldPC.v + Size
  IN  setReg(S2, PC, IntVal(OldPC.const, NewV, RegBits))

\* translateInst up to the interpreter loop: SwitchToInst, the optional
\* instruction-address store, translateTargetInst, the table lookup and the
\* PC increment. done: tryTranslateInst returned (with ok) before the loop.
translateInstHead(S, inst, save) ==
  LET S1 == BuilderEmit(S, I("startinst", inst.Address, inst.Opcode))
      S2 == IF save THEN BuilderEmit(S1, I("store_instaddr", inst.Address, 0)) ELSE S1
      SemaIdx == OpcodeToSemaIdx[inst.Opcode + 1]
  IN  IF inst.Opcode \in TargetInsts
      THEN [S |-> BuilderEmit(S2, I("target", inst.Opcode, 0)), done |-> TRUE, ok |-> TRUE]
      ELSE IF SemaIdx = NoSema
      THEN [S |-> [S2 EXCEPT !.Idx = NoSema], done |-> TRUE, ok |-> FALSE]
      ELSE [S |-> IncrementPC([S2 EXCEPT !.Idx = SemaIdx], inst.Size),
            done |-> FALSE, ok |-> TRUE]

\* ------------------------------------------------ constructor, destructor
\* Mutant: the regset diff is left out of the constructor.
Constructor_NoDiff(diff, StartAddr) ==
  LET S0 == [blocks |-> << <<>>, <<>> >>, BBByAddr |-> <<>>, CallBBs |-> <<>>,
             TheBB |-> EntryBB, InsertBB |-> EntryBB, Idx |-> 0, Vals |-> <<>>,
             regPC |-> Unknown, drsLog |-> <<>>, opened |-> {}, abort |-> FALSE]
      E2 == CreateBlock(S0)
      E3 == Emit(E2, DiffExitBB, RetI)
      S1 == IF diff THEN Emit(E3, ExitBB, BrI(DiffExitBB)) ELSE Emit(S0, ExitBB, RetI)
      g == getOrCreateBasicBlock(S1, StartAddr)
  IN  BuilderEmit(g.S, BrI(g.BB))

\* DCFunction::DCFunction for an MC function starting at StartAddr.
Constructor(diff, StartAddr) ==
  LET S0 == [blocks |-> << <<>>, <<>> >>, BBByAddr |-> <<>>, CallBBs |-> <<>>,
             TheBB |-> EntryBB, InsertBB |-> EntryBB, Idx |-> 0, Vals |-> <<>>,
             regPC |-> Unknown, drsLog |-> <<>>, opened |-> {}, abort |-> FALSE]
      E1 == BuilderEmit(BuilderEmit(BuilderEmit(S0, I("alloca", 0, 0)), I("load", 0, 0)),
                        I("store", 0, 0))
      E2 == CreateBlock(E1)
      E3 == Emit(Emit(E2, DiffExitBB, I("diffcall", StartAddr, 0)), DiffExitBB, RetI)
      S1 == IF diff THEN Emit(E3, ExitBB, BrI(DiffExitBB)) ELSE Emit(S0, ExitBB, RetI)
      g == getOrCreateBasicBlock(S1, StartAddr)
  IN  BuilderEmit(g.S, BrI(g.BB))

\* An instruction inserted before position pos of block bb.
InsertBefore(S, bb, pos, ins) ==
  [S EXCEPT !.blocks[bb] = SubSeq(@, 1, pos - 1) \o <<ins>> \o SubSeq(@, pos, Len(@))]

\* The loop of ~DCFunction over CallBBs[i..].
RECURSIVE wrapCallBBs(_, _)
wrapCallBBs(S, i) ==
  IF i > Len(S.CallBBs) THEN S
  ELSE LET CallBB == S.CallBBs[i]
           S1 == DRSNotify(InsertBefore(S, CallBB, 1, I("save_all_local_regs", 0, 0)),
                           "saveAllLocalRegs", CallBB)
           S2 == DRSNotify(InsertBefore(S1, CallBB, 3, I("restore_local_regs", 0, 0)),
                           "restoreLocalRegs", CallBB)
       IN  IF Len(S.blocks[CallBB]) # 2 THEN [S EXCEPT !.abort = TRUE]
           ELSE wrapCallBBs(S2, i + 1)

\* Mutant: FinalizeFunction is called before the call blocks are wrapped.
Destructor_FinalizeFirst(S) ==
  wrapCallBBs(DRSNotify(S, "FinalizeFunction", ExitBB), 1)

Destructor(S) ==
  LET S1 == wrapCallBBs(S, 1)
  IN  IF S1.abort THEN S1 ELSE DRSNotify(S1, "FinalizeFunction", ExitBB)

\* ------------------------------------------------------------------ Init
Init ==
  /\ EnableRegSetDiff \in BOOLEAN
  /\ EnableInstAddrSave \in BOOLEAN
  /\ TranslateUnknownToUndef \in BOOLEAN
  /\ \E StartAddr \in 0..MaxStart :
       LET S == Constructor(EnableRegSetDiff, StartAddr)
       IN  /\ blocks = S.blocks
           /\ BBByAddr = S.BBByAddr
           /\ CallBBs = S.CallBBs
           /\ TheBB = S.TheBB
           /\ InsertBB = S.InsertBB
           /\ Idx = S.Idx
           /\ Vals = S.Vals
           /\ regPC = S.regPC
           /\ drsLog = S.drsLog
           /\ opened = S.opened
  /\ TheMCBB = NoMCBB
  /\ CurrentInst = NoInst
  /\ Success = TRUE
  /\ nInsts = 0
  /\ nSwitches = 0
  /\ pc = "idle"

\* --------------------------------------------------------------- actions
\* SwitchToBasicBlock(const MCBasicBlock *): the translation of the MC block
\* starting at addr begins. Its instructions are revealed one at a time;
\* EndAddr is the address after the last one revealed.
SwitchToMCBB(addr) ==
  /\ pc = "idle"
  /\ nSwitches < MaxSwitches
  /\ LET S == SwitchToBasicBlock(Cur, addr)
     IN  /\ Commit(S)
         /\ pc' = IF S.abort THEN "abort" ELSE "block"
  /\ TheMCBB' = [StartAddr |-> addr, EndAddr |-> addr]
  /\ nSwitches' = nSwitches + 1
  /\ UNCHANGED <<flags, CurrentInst, Success, nInsts>>

\* translateInst is called for the next instruction of the MC block.
TranslateInst(inst) ==
  /\ pc = "block"
  /\ nInsts < MaxInsts
  /\ LET h == translateInstHead(Cur, inst, EnableInstAddrSave)
     IN  IF h.done
         THEN LET t == translateInstTail(h.S, h.ok, TranslateUnknownToUndef)
              IN  /\ Commit(t.S)
                  /\ Success' = t.Success
                  /\ CurrentInst' = NoInst
                  /\ pc' = IF t.Success THEN "block" ELSE "failed"
         ELSE /\ Commit(h.S)
              /\ CurrentInst' = inst
              /\ pc' = "inst"
              /\ UNCHANGED Success
  /\ TheMCBB' = [TheMCBB EXCEPT !.EndAddr = @ + inst.Size]
  /\ nInsts' = nInsts + 1
  /\ UNCHANGED <<flags, nSwitches>>

\* The semantic opcodes whose translation asks a target hook.
DelegatesToHook(Opcode) ==
  \/ Opcode >= BUILTIN_OP_END /\ Opcode < DC_OPCODE_START
  \/ Opcode \in {CUSTOM_OP, COMPLEX_PATTERN, IMPLICIT}

\* One iteration of the loop of tryTranslateInst on an opcode other than
\* END_OF_INSTRUCTION; translateInst returns when translateOpcode fails.
TranslateOpcode(hookOK) ==
  /\ pc = "inst"
  /\ Tok(Idx) # END_OF_INSTRUCTION
  /\ hookOK \/ DelegatesToHook(Tok(Idx))
  /\ LET r == translateOpcode(Skip(Cur, 1), Tok(Idx), CurrentInst, hookOK)
     IN  IF r.S.abort
         THEN /\ Commit(r.S)
              /\ pc' = "abort"
              /\ UNCHANGED <<CurrentInst, Success>>
         ELSE IF r.ok
         THEN /\ Commit(r.S)
              /\ pc' = "inst"
              /\ UNCHANGED <<CurrentInst, Success>>
         ELSE LET t == translateInstTail(r.S, FALSE, TranslateUnknownToUndef)
              IN  /\ Commit(t.S)
                  /\ Success' = t.Success
                  /\ CurrentInst' = NoInst
                  /\ pc' = IF t.Success THEN "block" ELSE "failed"
  /\ UNCHANGED <<flags, TheMCBB, nInsts, nSwitches>>

\* Mutant: the loop does not stop at END_OF_INSTRUCTION and reads on.
EndOfInstruction_KeepsReading ==
  /\ pc = "inst"
  /\ Tok(Idx) = END_OF_INSTRUCTION
  /\ Commit(Skip(Cur, 1))
  /\ pc' = "inst"
  /\ UNCHANGED <<flags, TheMCBB, CurrentInst, Success, nInsts, nSwitches>>

\* The loop reads END_OF_INSTRUCTION: tryTranslateInst returns true.
EndOfInstruction ==
  /\ pc = "inst"
  /\ Tok(Idx) = END_OF_INSTRUCTION
  /\ LET t == translateInstTail(Skip(Cur, 1), TRUE, TranslateUnknownToUndef)
     IN  /\ Commit(t.S)
         /\ Success' = t.Success
         /\ CurrentInst' = NoInst
         /\ pc' = IF t.Success THEN "block" ELSE "failed"
  /\ UNCHANGED <<flags, TheMCBB, nInsts, nSwitches>>

\* FinalizeBasicBlock, once every instruction of the MC block is translated.
FinalizeMCBB ==
  /\ pc = "block"
  /\ Commit(FinalizeBasicBlock(Cur, TheMCBB.EndAddr))
  /\ TheMCBB' = NoMCBB
  /\ pc' = "idle"
  /\ UNCHANGED <<flags, CurrentInst, Success, nInsts, nSwitches>>

\* createExternalTailCallBB(addr), between MC blocks.
ExternalTailCall(addr) ==
  /\ pc = "idle"
  /\ nSwitches < MaxSwitches
  /\ LET S == createExternalTailCallBB(Cur, addr)
     IN  /\ Commit(S)
         /\ pc' = IF S.abort THEN "abort" ELSE "idle"
  /\ nSwitches' = nSwitches + 1
  /\ UNCHANGED <<flags, TheMCBB, CurrentInst, Success, nInsts>>

\* Mutant: the post-processing is manual clean-up on the success path only.
Destroy_OnlyOnSuccess ==
  /\ pc = "idle"
  /\ LET S == Destructor(Cur)
     IN  /\ Commit(S)
         /\ pc' = IF S.abort THEN "abort" ELSE "done"
  /\ UNCHANGED <<flags, TheMCBB, CurrentInst, Success, nInsts, nSwitches>>

\* ~DCFunction: after the last MC block, or when translateInst returned
\* false and the function is abandoned.
Destroy ==
  /\ pc \in {"idle", "failed"}
  /\ LET S == Destructor(Cur)
     IN  /\ Commit(S)
         /\ pc' = IF S.abort THEN "abort" ELSE "done"
  /\ UNCHANGED <<flags, TheMCBB, CurrentInst, Success, nInsts, nSwitches>>

Next ==
  \/ \E addr \in Addrs : SwitchToMCBB(addr)
  \/ \E inst \in DecodedInsts(TheMCBB.EndAddr) : TranslateInst(inst)
  \/ \E hookOK \in BOOLEAN : TranslateOpcode(hookOK)
  \/ EndOfInstruction
  \/ FinalizeMCBB
  \/ \E addr \in Addrs : ExternalTailCall(addr)
  \/ Destroy

Spec == Init /\ [][Next]_vars

\* The translation is sequential code that runs on until the DCFunction is
\* destroyed or an assertion stops the process. The runs are those with
\* the two flags off that change neither the failures of translateInst nor
\* the call blocks.
LiveInit == Init /\ ~EnableRegSetDiff /\ ~EnableInstAddrSave

LiveSpec == LiveInit /\ [][Next]_vars /\ WF_vars(Next)

\* ------------------------------------------------- PUT_RC on every value
\* The values PUT_RC can find on the value stack: integers, pointers and
\* floating-point values of 1..MaxWidth bits, constant or not.
PutValues ==
  { Val(c, IF c THEN 0 ELSE Unknown, ty, w) :
      c \in BOOLEAN, ty \in {"int", "ptr", "float"}, w \in 1..MaxWidth }

\* The position of the first token Opcode in the segment starting at i.
RECURSIVE OpcodePos(_, _)
OpcodePos(i, Opcode) ==
  IF Tok(i) = Opcode THEN i ELSE OpcodePos(i + 1, Opcode)

\* The interpreter is about to read the PUT_RC of a register move, in the
\* first block of the function, with one value of PutValues on the stack.
PutInit ==
  /\ EnableRegSetDiff \in BOOLEAN
  /\ EnableInstAddrSave \in BOOLEAN
  /\ TranslateUnknownToUndef \in BOOLEAN
  /\ \E StartAddr \in 0..MaxStart, V \in PutValues :
       LET inst == [Address |-> StartAddr, Size |-> InstSize[MOV + 1], Opcode |-> MOV,
                    Imm |-> 0]
           S0 == SwitchToBasicBlock(Constructor(EnableRegSetDiff, StartAddr), StartAddr)
           S == translateInstHead(S0, inst, EnableInstAddrSave).S
       IN  /\ blocks = S.blocks
           /\ BBByAddr = S.BBByAddr
           /\ CallBBs = S.CallBBs
           /\ TheBB = S.TheBB
           /\ InsertBB = S.InsertBB
           /\ Idx = OpcodePos(OpcodeToSemaIdx[MOV + 1], PUT_RC)
           /\ Vals = <<V>>
           /\ regPC = S.regPC
           /\ drsLog = S.drsLog
           /\ opened = S.opened
           /\ TheMCBB = [StartAddr |-> StartAddr, EndAddr |-> StartAddr + inst.Size]
           /\ CurrentInst = inst
  /\ Success = TRUE
  /\ nInsts = 1
  /\ nSwitches = 1
  /\ pc = "inst"

PutNext ==
  \/ \E hookOK \in {TRUE} : TranslateOpcode(hookOK)
  \/ EndOfInstruction

PutSpec == PutInit /\ [][PutNext]_vars

\* ------------------------------------------- wide multiply on every value
\* The interpreter is about to read the SMUL_LOHI or UMUL_LOHI of a wide
\* multiply, in the first block of the function, with two factors of the
\* low result's width on the stack: every bit pattern, constant or not.
MulInit ==
  /\ EnableRegSetDiff \in BOOLEAN
  /\ EnableInstAddrSave \in BOOLEAN
  /\ TranslateUnknownToUndef \in BOOLEAN
  /\ \E StartAddr \in 0..MaxStart, Opcode \in {MULS, MULU, MULSW, MULUW} :
       LET inst == [Address |-> StartAddr, Size |-> InstSize[Opcode + 1],
                    Opcode |-> Opcode, Imm |-> 0]
           S0 == SwitchToBasicBlock(Constructor(EnableRegSetDiff, StartAddr), StartAddr)
           S == translateInstHead(S0, inst, EnableInstAddrSave).S
           w == Tok(OpcodeToSemaIdx[Opcode + 1] + 1)
       IN  /\ blocks = S.blocks
           /\ BBByAddr = S.BBByAddr
           /\ CallBBs = S.CallBBs
           /\ TheBB = S.TheBB
           /\ InsertBB = S.InsertBB
           /\ Idx = OpcodeToSemaIdx[Opcode + 1]
           /\ \E c1 \in BOOLEAN, c2 \in BOOLEAN, a \in 0..(Pow2(w) - 1), b \in 0..(Pow2(w) - 1) :
                Vals = <<IntVal(c2, b, w), IntVal(c1, a, w)>>
           /\ regPC = S.regPC
           /\ drsLog = S.drsLog
           /\ opened = S.opened
           /\ TheMCBB = [StartAddr |-> StartAddr, EndAddr |-> StartAddr + inst.Size]
           /\ CurrentInst = inst
  /\ Success = TRUE
  /\ nInsts = 1
  /\ nSwitches = 1
  /\ pc = "inst"

MulNext ==
  \/ \E hookOK \in {TRUE} : TranslateOpcode(hookOK)
  \/ EndOfInstruction

MulSpec == MulInit /\ [][MulNext]_vars

\* ================================================================ claims
\* Addresses a block can be asked for: MC block starts, branch targets and
\* the end addresses of MC blocks.
TopAddr == MaxAddr + 2 * MaxInsts

\* Blocks the constructor creates besides the block at the start address.
FixedBlocks == IF EnableRegSetDiff THEN 3 ELSE 2

\* C1: block uniqueness. In every reachable state the address map names an
\* existing block for each of its addresses, no block stands for two
\* addresses, the function holds no block beyond the fixed ones, one per
\* mapped address and two per call, and getOrCreateBasicBlock(a) called
\* twice returns the same block, creating one only on the first call and
\* only when a was not mapped.
C1_BlockUniqueness ==
  /\ \A a \in DOMAIN BBByAddr : BBByAddr[a] \in 1..Len(blocks)
  /\ \A a, b \in DOMAIN BBByAddr : a # b => BBByAddr[a] # BBByAddr[b]
  /\ Len(blocks) = FixedBlocks + Cardinality(DOMAIN BBByAddr) + 2 * Len(CallBBs)
  /\ \A a \in 0..TopAddr :
       LET g1 == getOrCreateBasicBlock(Cur, a)
           g2 == getOrCreateBasicBlock(g1.S, a)
       IN  /\ g2.BB = g1.BB
           /\ g2.S = g1.S
           /\ a \in DOMAIN BBByAddr => g1.BB = BBByAddr[a] /\ g1.S = Cur

\* C1 witness: SwitchToBasicBlock asked for the start address the
\* constructor had already asked for, and got the constructor's block.
C1_Witness ==
  /\ pc = "block"
  /\ nSwitches = 1
  /\ TheMCBB.StartAddr \in 0..MaxStart
  /\ TheBB = FixedBlocks + 1
  /\ Len(blocks) = FixedBlocks + 1

\* C2: placeholder discipline. Every block of the address map that
\* SwitchToBasicBlock has not opened holds exactly trap; unreachable, and
\* prepareBasicBlockForInsertion on it passes its assertion and leaves it
\* empty.
C2_PlaceholderDiscipline ==
  \A a \in DOMAIN BBByAddr :
    LET b == BBByAddr[a]
        P == prepareBasicBlockForInsertion(Cur, b)
    IN  b \notin opened =>
          /\ blocks[b] = Placeholder
          /\ ~P.abort
          /\ P.blocks[b] = <<>>

\* C2 witness: one block is open and filled while another address of the
\* map is still unopened.
C2_Witness ==
  /\ pc = "block"
  /\ nInsts > 0
  /\ \E a \in DOMAIN BBByAddr : BBByAddr[a] \notin opened

\* ------------------------------------------------------------------- C3
Known(o) == OpcodeToSemaIdx[o + 1] # NoSema

\* Block b holds, from position j on: read PC, add size, write PC.
PCIncrementAt(b, j, size) ==
  /\ j + 2 <= Len(blocks[b])
  /\ blocks[b][j] = I("getreg", PC, 0)
  /\ blocks[b][j + 1] = I("add", size, 0)
  /\ blocks[b][j + 2].op = "setreg"
  /\ blocks[b][j + 2].a = PC

\* C3 as claimed: under every flag setting, the IR of every instruction
\* whose opcode has a table entry starts (right after the instruction
\* marker) with PC <- PC + size.
C3_PCFirstAlways ==
  \A b \in 1..Len(blocks) : \A i \in 1..Len(blocks[b]) :
    blocks[b][i].op = "startinst" /\ Known(blocks[b][i].b) =>
      PCIncrementAt(b, i + 1, InstSize[blocks[b][i].b + 1])

\* C3 amended: for every instruction that translateTargetInst declines and
\* whose opcode has a table entry, PC <- PC + size is emitted before any
\* effect of the semantic opcodes; it is the first IR effect when
\* enable-dc-pc-save is off, and with the flag on only the volatile store
\* of the instruction address precedes it.
C3_PCFirst ==
  \A b \in 1..Len(blocks) : \A i \in 1..Len(blocks[b]) :
    LET m == blocks[b][i]
    IN  m.op = "startinst" /\ Known(m.b) /\ m.b \notin TargetInsts =>
          IF EnableInstAddrSave
          THEN /\ i + 1 <= Len(blocks[b])
               /\ blocks[b][i + 1] = I("store_instaddr", m.a, 0)
               /\ PCIncrementAt(b, i + 2, InstSize[m.b + 1])
          ELSE PCIncrementAt(b, i + 1, InstSize[m.b + 1])

\* C3 witness: with enable-dc-pc-save on, a known instruction is inside
\* its tape interpretation and a semantic opcode has already emitted IR
\* after the PC increment.
C3_Witness ==
  /\ EnableInstAddrSave
  /\ pc = "inst"
  /\ Len(Vals) > 0
  /\ \E i \in 1..Len(blocks[InsertBB]) :
       /\ blocks[InsertBB][i].op = "startinst"
       /\ Len(blocks[InsertBB]) > i + 4

\* ------------------------------------------------------------------- C4
\* C4 as claimed: Vals is empty when the loop is about to read an
\* END_OF_INSTRUCTION token, and whenever no instruction is in translation.
C4_EmptyAtEndToken ==
  /\ pc = "inst" /\ Tok(Idx) = END_OF_INSTRUCTION => Vals = <<>>
  /\ CurrentInst = NoInst => Vals = <<>>

\* C4 amended: Vals is empty whenever translateInst has returned (true or
\* false): it is cleared on return, not by the tape. At the
\* END_OF_INSTRUCTION token it still holds the results the tape's opcodes
\* left unconsumed.
C4_EmptyAfterReturn == CurrentInst = NoInst => Vals = <<>>

\* C4 witness: translateInst returned after an instruction whose tape
\* pushed results (custom operand, complex pattern) nothing consumed.
C4_Witness ==
  /\ pc = "block"
  /\ CurrentInst = NoInst
  /\ Vals = <<>>
  /\ \E i \in 1..Len(blocks[InsertBB]) : blocks[InsertBB][i].op = "complexpattern"
  /\ Idx = 52

\* ------------------------------------------------------------------- C5
EndsWithTrapUnreachable(b) ==
  /\ Len(b) >= 2
  /\ b[Len(b) - 1] = TrapI
  /\ b[Len(b)] = UnreachableI

\* What a returning translateInst step must look like, given whether the
\* translation of the instruction failed.
ReturnsAsClaimed(failed) ==
  /\ Success' = (~failed \/ TranslateUnknownToUndef)
  /\ TranslateUnknownToUndef => Success'
  /\ (failed /\ TranslateUnknownToUndef) =>
       /\ InsertBB' = InsertBB
       /\ EndsWithTrapUnreachable(blocks'[InsertBB])
       /\ Len(blocks'[InsertBB]) >= Len(blocks[InsertBB]) + 2
  /\ (failed /\ ~TranslateUnknownToUndef) => ~EndsWithTrapUnreachable(blocks'[InsertBB'])

\* Semantic opcodes of the tape whose translation can fail: an opcode
\* translateOpcode has no case for, a predicate, and the hooks for target
\* opcodes, custom operands and complex patterns.
CanFail == {ISD_SETCC, PREDICATE, TGT_OP, CUSTOM_OP, COMPLEX_PATTERN}

\* C5: translateInst returns true when the instruction is translated
\* (handled by the target, or its tape ran to END_OF_INSTRUCTION) and
\* false when the opcode has no table entry or an opcode, predicate,
\* complex pattern or custom operand of its tape is unsupported; with
\* translate-unknown-to-undef on, every such failure appends trap;
\* unreachable at the insertion point and translateInst returns true.
C5_ReturnValue ==
  [][ /\ \A inst \in DecodedInsts(TheMCBB.EndAddr) :
           (TranslateInst(inst) /\ pc' # "inst") =>
             ReturnsAsClaimed(inst.Opcode \notin TargetInsts /\ ~Known(inst.Opcode))
      /\ \A h \in BOOLEAN :
           (TranslateOpcode(h) /\ pc' \notin {"inst", "abort"}) =>
             (Tok(Idx) \in CanFail /\ ReturnsAsClaimed(TRUE))
      /\ EndOfInstruction => ReturnsAsClaimed(FALSE)
    ]_vars

\* C5 witness: with the policy on, an opcode inside a known instruction's
\* tape failed, the trap was appended and translateInst returned true.
C5_Witness ==
  /\ TranslateUnknownToUndef
  /\ pc = "block"
  /\ Success
  /\ Idx = 30
  /\ EndsWithTrapUnreachable(blocks[InsertBB])

\* ------------------------------------------------------------------- C6
\* The verifier's rule for one block: exactly one terminator, and it is
\* the last instruction.
WellFormed(b) ==
  /\ Len(b) > 0
  /\ IsTerminator(b[Len(b)])
  /\ \A i \in 1..(Len(b) - 1) : ~IsTerminator(b[i])

\* The MC opcodes of the instructions translated into block id.
OpcodesIn(id) ==
  { blocks[id][i].b : i \in { j \in 1..Len(blocks[id]) : blocks[id][j].op = "startinst" } }

\* C6: with translate-unknown-to-undef on, once FinalizeBasicBlock has run,
\* every opened block whose MC block held an instruction with no table
\* entry (next to plain register moves, at any position) is well formed.
C6_UndefKeepsWellFormed ==
  (TranslateUnknownToUndef /\ pc = "idle") =>
    \A b \in opened :
      (UNK \in OpcodesIn(b) /\ OpcodesIn(b) \subseteq {UNK, MOV}) => WellFormed(blocks[b])

\* ------------------------------------------------------------------- C7
\* Position of the first terminator of a block, 0 when it has none.
FirstTerm(b) ==
  LET T == { i \in 1..Len(b) : IsTerminator(b[i]) }
  IN  IF T = {} THEN 0 ELSE CHOOSE i \in T : \A j \in T : i <= j

Succs(id) ==
  LET t == FirstTerm(blocks[id])
  IN  IF t > 0 /\ blocks[id][t].op = "br" THEN {blocks[id][t].a} ELSE {}

RECURSIVE ReachFrom(_, _)
ReachFrom(R, n) ==
  LET More == R \cup UNION { Succs(x) : x \in R }
  IN  IF n = 0 \/ More = R THEN R ELSE ReachFrom(More, n - 1)

\* The blocks control can reach from the entry block.
Reachable == ReachFrom({EntryBB}, Len(blocks))

Returns(id) ==
  LET t == FirstTerm(blocks[id]) IN t > 0 /\ blocks[id][t].op = "ret"

\* Diff calls block id executes: those before its first terminator.
DiffCalls(id) ==
  LET t == FirstTerm(blocks[id])
      n == IF t = 0 THEN Len(blocks[id]) ELSE t
  IN  Cardinality({ i \in 1..n : blocks[id][i].op = "diffcall" })

\* The successors of the recorded call blocks.
CallSuccessors == { blocks[CallBBs[i]][Len(blocks[CallBBs[i]])].a : i \in 1..Len(CallBBs) }

\* C7 as claimed: every path from the entry block to a ret passes exactly
\* one diff call with enable-dc-regset-diff on, and none with it off.
C7_DiffOnEveryReturn ==
  \A r \in Reachable :
    IF Returns(r)
    THEN DiffCalls(r) = (IF EnableRegSetDiff THEN 1 ELSE 0)
    ELSE DiffCalls(r) = 0

\* C7 amended: with the flag on, the exit block branches to the diff-exit
\* block, which is call diff; ret, so every return through the exit block
\* passes exactly one diff call; the ret of createExternalTailCallBB sits
\* in the successor of its call block and returns with no diff call; no
\* other block holds a ret or a diff call. With the flag off no block holds
\* a diff call.
C7_DiffOnExitReturns ==
  /\ EnableRegSetDiff =>
       /\ blocks[ExitBB] = <<BrI(DiffExitBB)>>
       /\ Len(blocks[DiffExitBB]) = 2
       /\ blocks[DiffExitBB][1].op = "diffcall"
       /\ blocks[DiffExitBB][2] = RetI
  /\ ~EnableRegSetDiff => blocks[ExitBB] = <<RetI>>
  /\ \A r \in 1..Len(blocks) :
       LET exit == IF EnableRegSetDiff THEN DiffExitBB ELSE ExitBB
       IN  /\ r # exit => \A i \in 1..Len(blocks[r]) : blocks[r][i].op # "diffcall"
           /\ (r # exit /\ \E i \in 1..Len(blocks[r]) : blocks[r][i].op = "ret") =>
                r \in CallSuccessors /\ blocks[r] = <<RetI>>
  /\ \A r \in Reachable :
       Returns(r) /\ r \notin CallSuccessors =>
         DiffCalls(r) = (IF EnableRegSetDiff THEN 1 ELSE 0)

\* C7 witness: with the flag on, control reaches the ret of an external
\* tail call from the entry block.
C7_Witness ==
  /\ EnableRegSetDiff
  /\ \E r \in Reachable : Returns(r) /\ r \in CallSuccessors /\ DiffCalls(r) = 0

\* ------------------------------------------------------------------- C8
\* C8: before the destructor runs, every recorded call block is exactly
\* call; br, and the destructor's size assertion passes on all of them.
C8_CallBlockShape ==
  pc # "done" =>
    /\ \A i \in 1..Len(CallBBs) :
         LET cb == blocks[CallBBs[i]]
         IN  /\ Len(cb) = 2
             /\ cb[1].op = "call"
             /\ cb[2].op = "br"
    /\ ~Destructor(Cur).abort

\* C8 witness: two call blocks are recorded, one of a tail call and one of
\* an indirect branch, and the destructor has not run.
C8_Witness ==
  /\ pc = "block"
  /\ Len(CallBBs) = 2
  /\ blocks[CallBBs[1]][1].a = 1
  /\ blocks[CallBBs[2]][1].a = 0

\* ------------------------------------------------------------------- C9
\* No translate_at call appears in the step.
NoNewTranslateAt ==
  \A b \in 1..Len(blocks') : \A i \in 1..Len(blocks'[b]) :
    blocks'[b][i].op = "translate_at" =>
      /\ b <= Len(blocks)
      /\ i <= Len(blocks[b])
      /\ blocks[b][i].op = "translate_at"

\* C9: the step that translates BR(target) writes target to PC and ends
\* the current block with a branch to the address-map block of target,
\* records no call block and emits no translate_at; the target is mapped
\* afterwards and, if not opened, is a placeholder; and no step changes a
\* mapped block that stays unopened.
C9_DirectBranch ==
  [][ /\ (pc = "inst" /\ Tok(Idx) = ISD_BR /\ Idx' # Idx) =>
           LET target == TopVal(Cur).v
           IN  /\ TopVal(Cur).const
               /\ regPC' = target
               /\ InsertBB' = InsertBB
               /\ TheBB' = TheBB
               /\ target \in DOMAIN BBByAddr'
               /\ blocks'[InsertBB] =
                    blocks[InsertBB] \o <<I("setreg", PC, target), BrI(BBByAddr'[target])>>
               /\ CallBBs' = CallBBs
               /\ NoNewTranslateAt
               /\ BBByAddr'[target] \notin opened' =>
                    blocks'[BBByAddr'[target]] = Placeholder
      /\ \A a \in DOMAIN BBByAddr :
           BBByAddr[a] \notin opened' =>
             /\ a \in DOMAIN BBByAddr'
             /\ BBByAddr'[a] = BBByAddr[a]
             /\ blocks'[BBByAddr[a]] = blocks[BBByAddr[a]]
    ]_vars

\* C9 witness: BR has just been translated and the current block ends with
\* a branch to a block that is still a placeholder.
C9_Witness ==
  /\ pc = "inst"
  /\ Idx = 12
  /\ LET b == blocks[InsertBB]
     IN  /\ b[Len(b)].op = "br"
         /\ b[Len(b)].a \notin opened
         /\ blocks[b[Len(b)].a] = Placeholder

\* ------------------------------------------------------------------ C10
\* The BRIND step, as far as it does not depend on the operand: PC is
\* written, a call block and its successor are created and recorded, and
\* the successor, now current, branches to the exit block.
BRINDCommon(v, cb, nb) ==
  /\ regPC' = v
  /\ Len(blocks') = Len(blocks) + 2
  /\ blocks'[nb] = <<BrI(ExitBB)>>
  /\ CallBBs' = Append(CallBBs, cb)
  /\ TheBB' = nb
  /\ InsertBB' = nb

\* The BRIND step through translate_at.
BRINDTranslateAt(v, cb, nb) ==
  /\ blocks'[InsertBB] =
       blocks[InsertBB] \o <<I("setreg", PC, v), I("inttoptr", 0, v),
                             I("translate_at", 0, v), I("bitcast", 0, 0), BrI(cb)>>
  /\ blocks'[cb] = <<I("call", 0, v), BrI(nb)>>

\* C10 as claimed: for every operand v the BRIND step writes v to PC, emits
\* translate_at(v), calls its result in a call block and branches to exit.
C10_IndirectAlwaysTranslateAt ==
  [][ (pc = "inst" /\ Tok(Idx) = ISD_BRIND /\ Idx' # Idx) =>
        LET v == TopVal(Cur).v
            cb == Len(blocks) + 1
            nb == Len(blocks) + 2
        IN  BRINDCommon(v, cb, nb) /\ BRINDTranslateAt(v, cb, nb)
    ]_vars

\* C10 amended: the BRIND step writes v to PC, calls the target in a call
\* block and branches to exit; the target is the result of translate_at(v)
\* when v is not a constant, and when v is a constant it is the IR function
\* at address v, with no translate_at call.
C10_IndirectBranch ==
  [][ (pc = "inst" /\ Tok(Idx) = ISD_BRIND /\ Idx' # Idx) =>
        LET v == TopVal(Cur).v
            cb == Len(blocks) + 1
            nb == Len(blocks) + 2
        IN  /\ BRINDCommon(v, cb, nb)
            /\ IF TopVal(Cur).const
               THEN /\ blocks'[InsertBB] =
                         blocks[InsertBB] \o <<I("setreg", PC, v), BrI(cb)>>
                    /\ blocks'[cb] = <<I("call", 1, v), BrI(nb)>>
                    /\ NoNewTranslateAt
               ELSE BRINDTranslateAt(v, cb, nb)
    ]_vars

\* C10 witness: BRIND of a register value has just been translated: the
\* call block calls the translate_at result and the current block branches
\* to exit.
C10_Witness ==
  /\ pc = "inst"
  /\ Idx = 18
  /\ Len(CallBBs) > 0
  /\ blocks[CallBBs[Len(CallBBs)]][1] = I("call", 0, Unknown)
  /\ blocks[InsertBB] = <<BrI(ExitBB)>>

\* ------------------------------------------------------------------ C11
\* The calls ~DCFunction makes to DRS for the recorded call blocks CBs:
\* save then restore for each block, in recording order, then
\* FinalizeFunction(ExitBB).
TeardownCalls(CBs) ==
  [k \in 1..(2 * Len(CBs) + 1) |->
     IF k = 2 * Len(CBs) + 1 THEN [call |-> "FinalizeFunction", bb |-> ExitBB]
     ELSE [call |-> IF k % 2 = 1 THEN "saveAllLocalRegs" ELSE "restoreLocalRegs",
           bb |-> CBs[(k + 1) \div 2]]]

IsCallBB(b) == \E i \in 1..Len(CallBBs) : CallBBs[i] = b

\* C11: the step that completes the destructor turns every recorded call
\* block call; br into save_all_local_regs; call; restore_local_regs; br
\* with the same call and branch, changes no other block, and calls DRS for
\* the call blocks in recording order and then FinalizeFunction(ExitBB),
\* which DRS had not received before and receives exactly once.
C11_TeardownOrder ==
  [][(pc # "done" /\ pc' = "done") =>
       /\ Len(blocks') = Len(blocks)
       /\ \A b \in 1..Len(blocks) :
            IF IsCallBB(b)
            THEN blocks'[b] = <<I("save_all_local_regs", 0, 0), blocks[b][1],
                               I("restore_local_regs", 0, 0), blocks[b][2]>>
                 /\ blocks[b][1].op = "call"
                 /\ blocks[b][2].op = "br"
            ELSE blocks'[b] = blocks[b]
       /\ \A i \in 1..Len(drsLog) : drsLog[i].call # "FinalizeFunction"
       /\ drsLog' = drsLog \o TeardownCalls(CallBBs)]_vars

\* C11 witness: the destructor has run on a function with two recorded
\* call blocks.
C11_Witness ==
  /\ pc = "done"
  /\ Len(CallBBs) = 2
  /\ drsLog[Len(drsLog)] = [call |-> "FinalizeFunction", bb |-> ExitBB]
  /\ drsLog[Len(drsLog) - 1] = [call |-> "restoreLocalRegs", bb |-> CallBBs[2]]
  /\ blocks[CallBBs[1]][1].op = "save_all_local_regs"

OpcodesOf(body) ==
  { body[i].b : i \in { j \in 1..Len(body) : body[j].op = "startinst" } }

\* The lifecycle state of a block body, given whether it was ever opened.
LifecycleState(body, wasOpened) ==
  IF ~wasOpened THEN "placeholder"
  ELSE IF HasTerminator(body) THEN "finalized"
  ELSE "open"

\* C13: for every address-keyed block that branch-free instructions only
\* (register moves, instructions with no table entry) were translated
\* into: a block never opened is trap; unreachable, an open block is the
\* insertion block, and no step takes a block from finalized back to open
\* or placeholder, or from open back to placeholder.
C13_BlockLifecycle ==
  [][\A a \in DOMAIN BBByAddr :
       LET b == BBByAddr[a]
           old == LifecycleState(blocks[b], b \in opened)
           new == LifecycleState(blocks'[b], b \in opened')
       IN  OpcodesOf(blocks'[b]) \subseteq {MOV, UNK} =>
             /\ BBByAddr'[a] = b
             /\ new = "placeholder" => blocks'[b] = Placeholder
             /\ new = "open" => InsertBB' = b
             /\ old = "finalized" => new = "finalized"
             /\ old = "open" => new # "placeholder"]_vars

\* ------------------------------------------------------------------ C14
\* C14: in every reachable state, SwitchToBasicBlock on a mapped address
\* whose block was opened before fails the assertion of
\* prepareBasicBlockForInsertion and leaves every block as it was; on a
\* mapped address never opened it finds trap; unreachable, passes the
\* assertion and erases exactly those two instructions.
C14_OpenOnlyPlaceholder ==
  \A a \in DOMAIN BBByAddr :
    LET b == BBByAddr[a]
        P == prepareBasicBlockForInsertion(Cur, b)
        S == SwitchToBasicBlock(Cur, a)
    IN  IF b \in opened
        THEN /\ P.abort
             /\ P.blocks = blocks
             /\ S.abort
             /\ S.blocks = blocks
        ELSE /\ blocks[b] = Placeholder
             /\ ~P.abort
             /\ P.blocks = [blocks EXCEPT ![b] = <<>>]
             /\ ~S.abort

\* C14 witness: SwitchToBasicBlock was called for an MC block whose
\* address had been opened and translated into before, and stopped at the
\* assertion with the block untouched.
C14_Witness ==
  /\ pc = "abort"
  /\ TheMCBB # NoMCBB
  /\ TheMCBB.EndAddr = TheMCBB.StartAddr
  /\ TheBB \in opened
  /\ BBByAddr[TheMCBB.StartAddr] = TheBB
  /\ Len(blocks[TheBB]) > 2

\* ------------------------------------------------------------------ C15
\* The number of terminators in a block body.
Terminators(body) == Cardinality({ i \in 1..Len(body) : IsTerminator(body[i]) })

\* C15: the step FinalizeBasicBlock takes. When the current block has no
\* terminator it gets exactly one more instruction, a branch to the block
\* the address map holds for the MC block's end address, which is created
\* as a placeholder when the address was not mapped; when the current
\* block has a terminator no block and no map entry changes. In both cases
\* DRS receives one FinalizeBasicBlock and TheBB and TheMCBB are cleared.
C15_FinalizeFallthrough ==
  [][(pc = "block" /\ pc' = "idle") =>
       LET b == TheBB
           e == TheMCBB.EndAddr
       IN  /\ TheBB' = NullBB
           /\ TheMCBB' = NoMCBB
           /\ drsLog' = Append(drsLog, [call |-> "FinalizeBasicBlock", bb |-> NullBB])
           /\ IF HasTerminator(blocks[b])
              THEN blocks' = blocks /\ BBByAddr' = BBByAddr
              ELSE /\ e \in DOMAIN BBByAddr'
                   /\ blocks'[b] = Append(blocks[b], BrI(BBByAddr'[e]))
                   /\ \A x \in 1..Len(blocks) : x # b => blocks'[x] = blocks[x]
                   /\ \A a \in DOMAIN BBByAddr : BBByAddr'[a] = BBByAddr[a]
                   /\ IF e \in DOMAIN BBByAddr
                      THEN Len(blocks') = Len(blocks) /\ BBByAddr' = BBByAddr
                      ELSE /\ Len(blocks') = Len(blocks) + 1
                           /\ BBByAddr'[e] = Len(blocks')
                           /\ blocks'[Len(blocks')] = Placeholder
                           /\ DOMAIN BBByAddr' = DOMAIN BBByAddr \cup {e}]_vars

\* C15 witness: two MC blocks were finalized. The first, one register
\* move, got the fallthrough branch to a placeholder created for its end
\* address; the second ended in a direct branch and got nothing more.
C15_Witness ==
  /\ pc = "idle"
  /\ TheBB = NullBB
  /\ TheMCBB = NoMCBB
  /\ \E x, y \in opened :
       /\ OpcodesOf(blocks[x]) = {MOV}
       /\ HasTerminator(blocks[x])
       /\ blocks[x][Len(blocks[x])].op = "br"
       /\ blocks[blocks[x][Len(blocks[x])].a] = Placeholder
       /\ OpcodesOf(blocks[y]) = {JMP}
       /\ Terminators(blocks[y]) = 1
       /\ HasTerminator(blocks[y])

\* ------------------------------------------------------------------ C16
\* C16: between the instructions of an MC block translated in address
\* order with no branch among them, the value last written to PC is the
\* address of the next instruction: the block's start address right after
\* SwitchToBasicBlock, then the start address plus the sizes of the
\* instructions translated so far, whatever those instructions were.
C16_PCStaysCurrent ==
  (/\ pc = "block"
   /\ InsertBB = BBByAddr[TheMCBB.StartAddr]
   /\ OpcodesOf(blocks[InsertBB]) \cap {JMP, JMPR, JMPC} = {})
    => regPC = TheMCBB.EndAddr

\* ------------------------------------------------------------------ C17
\* The step appended the IR of a target hook that succeeded.
HookEmitted ==
  /\ Len(blocks'[InsertBB]) = Len(blocks[InsertBB]) + 1
  /\ blocks'[InsertBB][Len(blocks'[InsertBB])].op \in {"customop", "complexpattern", "implicit"}

\* A step of the interpreter loop on one of the opcodes Ops whose hook
\* reported failure ends the instruction: translateInst returns, with
\* false unless the undef policy turns the failure into a trap, and the
\* rest of the tape is not translated.
HookFailurePropagates(Ops) ==
  (pc = "inst" /\ Tok(Idx) \in Ops /\ ~HookEmitted) =>
    /\ pc' \in {"block", "failed"}
    /\ CurrentInst' = NoInst
    /\ Success' = TranslateUnknownToUndef

\* C17: a failing hook fails the instruction, for each of CUSTOM_OP,
\* COMPLEX_PATTERN and IMPLICIT.
C17_HookFailure ==
  [][HookFailurePropagates({CUSTOM_OP, COMPLEX_PATTERN, IMPLICIT})]_vars

\* ------------------------------------------------------------------ C18
\* The targets insertCallBB is given: the IR function of an address, or
\* the result of translate_at.
CallTargets == { FunctionAt(a) : a \in Addrs } \cup { [fn |-> FALSE, addr |-> Unknown] }

MappedBlocks == { BBByAddr[a] : a \in DOMAIN BBByAddr }

\* C18: in every state with a current block, insertCallBB passes its
\* assertion and splits that block: the current block gets a branch to a
\* new call block, the call block is call Target(regset); br successor, the
\* new successor is empty and is the current block and the insertion
\* point, DRS receives FinalizeBasicBlock then SwitchToBasicBlock(successor),
\* CallBBs grows by the call block, the address map is left alone and no
\* other block changes. The call blocks already recorded and their
\* successors are not in the address map.
C18_InsertCallBBSplits ==
  /\ (pc \in {"block", "inst"} /\ TheBB # NullBB) =>
       \A T \in CallTargets :
         LET S == insertCallBB(Cur, T)
             c == Len(blocks) + 1
             n == Len(blocks) + 2
         IN  /\ ~S.abort
             /\ Len(S.blocks) = n
             /\ S.blocks[TheBB] = Append(blocks[TheBB], BrI(c))
             /\ S.blocks[c] = <<CallI(T), BrI(n)>>
             /\ S.blocks[n] = <<>>
             /\ \A x \in 1..Len(blocks) : x # TheBB => S.blocks[x] = blocks[x]
             /\ S.TheBB = n
             /\ S.InsertBB = n
             /\ S.drsLog = drsLog \o <<[call |-> "FinalizeBasicBlock", bb |-> NullBB],
                                       [call |-> "SwitchToBasicBlock", bb |-> n]>>
             /\ S.CallBBs = Append(CallBBs, c)
             /\ S.BBByAddr = BBByAddr
  /\ \A i \in 1..Len(CallBBs) :
       /\ CallBBs[i] \notin MappedBlocks
       /\ CallBBs[i] + 1 \notin MappedBlocks
       /\ pc # "done" => blocks[CallBBs[i]][2] = BrI(CallBBs[i] + 1)

\* C18 witness: an indirect branch through a register has split the block
\* of its MC block: that block ends with the branch to the recorded call
\* block, and the successor is the current block and insertion point.
C18_Witness ==
  /\ pc = "block"
  /\ Len(CallBBs) = 1
  /\ TheBB = CallBBs[1] + 1
  /\ InsertBB = TheBB
  /\ TheBB \notin MappedBlocks
  /\ LET p == BBByAddr[TheMCBB.StartAddr]
     IN  /\ p \in opened
         /\ blocks[p][Len(blocks[p])] = BrI(CallBBs[1])
  /\ blocks[CallBBs[1]] = <<CallI([fn |-> FALSE, addr |-> Unknown]), BrI(TheBB)>>
  /\ drsLog[Len(drsLog)] = [call |-> "SwitchToBasicBlock", bb |-> TheBB]

\* ------------------------------------------------------------------ C19
\* The exit block, and the diff-exit block when the constructor made one.
ExitBlocks == IF EnableRegSetDiff THEN {ExitBB, DiffExitBB} ELSE {ExitBB}

\* Blocks b, c, r of body form the path of an external tail call to
\* address a: b writes PC and branches to c, c calls the IR function of a
\* and branches to r, r returns.
TailCallPath(body, a, b, c, r) ==
  /\ body[b] = <<I("setreg", PC, a), BrI(c)>>
  /\ body[c] = <<CallI(FunctionAt(a)), BrI(r)>>
  /\ body[r] = <<RetI>>
  /\ {b, c, r} \cap ExitBlocks = {}

\* C19: a createExternalTailCallBB(a) that passes its assertions opens a
\* block that was never opened, the address map's block for a, a
\* placeholder if it existed, and leaves the path block of a -> call block
\* -> ret void, each of the three blocks ending with its only terminator
\* and none of them the exit or diff-exit block; the returning block of a
\* tail call is never changed afterwards.
C19_ExternalTailCall ==
  [][/\ (pc = "idle" /\ pc' = "idle" /\ nSwitches' # nSwitches) =>
          \E a \in DOMAIN BBByAddr' :
            LET b == BBByAddr'[a]
                c == CallBBs'[Len(CallBBs')]
            IN  /\ b \notin opened
                /\ opened' = opened \cup {b}
                /\ a \in DOMAIN BBByAddr => BBByAddr[a] = b /\ blocks[b] = Placeholder
                /\ Len(CallBBs') = Len(CallBBs) + 1
                /\ TailCallPath(blocks', a, b, c, c + 1)
                /\ Terminators(blocks'[b]) = 1
                /\ Terminators(blocks'[c]) = 1
                /\ Terminators(blocks'[c + 1]) = 1
     /\ \A i \in 1..Len(CallBBs) :
          blocks[CallBBs[i] + 1] = <<RetI>> => blocks'[CallBBs[i] + 1] = <<RetI>>]_vars

\* C19 witness: with regset diffing on, an external tail call to an
\* address was created after an MC block had been translated, and its
\* returning block is the current block.
C19_Witness ==
  /\ EnableRegSetDiff
  /\ pc = "idle"
  /\ nInsts > 0
  /\ Len(CallBBs) > 0
  /\ \E a \in DOMAIN BBByAddr :
       /\ TailCallPath(blocks, a, BBByAddr[a], CallBBs[Len(CallBBs)], TheBB)
       /\ blocks[DiffExitBB][1].op = "diffcall"

\* ------------------------------------------------------------------ C20
\* The number of translate_at calls in the blocks bs of a function.
TranslateAtCalls(bs) ==
  Cardinality(UNION { { <<x, i>> : i \in { j \in 1..Len(bs[x]) : bs[x][j].op = "translate_at" } } :
                      x \in 1..Len(bs) })

\* The call targets insertCall is given: a constant address, or a value
\* computed at run time (a register's content).
CallTargetValues ==
  { IntVal(TRUE, a, RegBits) : a \in Addrs } \cup { IntVal(FALSE, Unknown, RegBits) }

\* C20: in every state with a current block, insertCall with a constant
\* target adds no translate_at call and creates one call block that calls
\* the IR function of that address; with a non-constant target it appends
\* inttoptr, one translate_at call and the bitcast of its result to the
\* current block and creates one call block that calls that result.
C20_InsertCallResolution ==
  (pc \in {"block", "inst"} /\ TheBB # NullBB) =>
    \A V \in CallTargetValues :
      LET S == insertCall(Cur, V)
          c == Len(blocks) + 1
      IN  /\ ~S.abort
          /\ Len(S.blocks) = Len(blocks) + 2
          /\ S.CallBBs = Append(CallBBs, c)
          /\ IF V.const
             THEN /\ TranslateAtCalls(S.blocks) = TranslateAtCalls(blocks)
                  /\ S.blocks[TheBB] = Append(blocks[TheBB], BrI(c))
                  /\ S.blocks[c][1] = CallI(FunctionAt(V.v))
             ELSE /\ TranslateAtCalls(S.blocks) = TranslateAtCalls(blocks) + 1
                  /\ S.blocks[TheBB] =
                       blocks[TheBB] \o <<I("inttoptr", 0, V.v), I("translate_at", 0, V.v),
                                          I("bitcast", 0, 0), BrI(c)>>
                  /\ S.blocks[c][1] = CallI([fn |-> FALSE, addr |-> V.v])

\* C20 witness: the function holds two call blocks, one made for a
\* constant target, calling the IR function of that address, and one made
\* for a register's content, calling the result of the only translate_at.
C20_Witness ==
  /\ Len(CallBBs) = 2
  /\ pc = "block"
  /\ TranslateAtCalls(blocks) = 1
  /\ \E i, j \in 1..2 :
       /\ blocks[CallBBs[i]][1] = CallI(FunctionAt(ConstantArray[1]))
       /\ blocks[CallBBs[j]][1] = CallI([fn |-> FALSE, addr |-> Unknown])

\* ------------------------------------------------------------------ C21
\* The tokens one opcode occupies on the tape: the opcode, its result
\* type and its inline operands.
TokensOf(Opcode) ==
  IF Opcode = CUSTOM_OP THEN 4
  ELSE IF Opcode \in {PUT_RC, PUT_REG, GET_RC, GET_REG, COMPLEX_PATTERN, PREDICATE,
                       CONSTANT_OP, MOV_CONSTANT, IMPLICIT, ISD_SMUL_LOHI,
                       ISD_UMUL_LOHI} THEN 3
  ELSE 2

\* The position of the first END_OF_INSTRUCTION at an opcode position of
\* the segment that starts at i.
RECURSIVE EndPos(_)
EndPos(i) == IF Tok(i) = END_OF_INSTRUCTION THEN i ELSE EndPos(i + TokensOf(Tok(i)))

\* C21: while tryTranslateInst interprets the segment of an instruction,
\* every step moves Idx forward, by exactly the tokens of the opcode it
\* reads, and never past the segment's END_OF_INSTRUCTION; reading that
\* token ends the loop with Idx right behind it, a failing opcode ends the
\* loop with Idx right behind that opcode, and outside an MC block Idx
\* does not move; and the interpretation of every instruction comes to an
\* end.
C21_TapeTerminates ==
  /\ [][pc = "inst" =>
          LET end == EndPos(OpcodeToSemaIdx[CurrentInst.Opcode + 1])
          IN  /\ Idx <= end
              /\ Idx' > Idx
              /\ Idx' <= end + 1
              /\ IF Tok(Idx) = END_OF_INSTRUCTION
                 THEN Idx' = Idx + 1 /\ pc' # "inst"
                 ELSE Idx' = Idx + TokensOf(Tok(Idx))]_vars
  /\ [][pc \notin {"inst", "block"} => Idx' = Idx]_vars
  /\ (pc = "inst") ~> (pc # "inst")

\* C21 witness: the loop stopped at a failing opcode, the custom operand
\* of an instruction, with the rest of the segment unread.
C21_Witness ==
  /\ pc = "failed"
  /\ Idx > 0
  /\ Tok(Idx) = COMPLEX_PATTERN
  /\ Tok(Idx - TokensOf(CUSTOM_OP)) = CUSTOM_OP

\* ------------------------------------------------------------------ C22
\* The setreg instructions of a block body.
SetRegs(body) == { i \in 1..Len(body) : body[i].op = "setreg" }

\* C22: the step that translates PUT_RC on the value V on top of the
\* stack. A pointer is converted to the register's integer type, a
\* non-integer is first bitcast to the integer of its width, a value
\* narrower than the register is inserted into the register's contents;
\* the value that results has the register's integer type exactly when V
\* is a pointer or no wider than the register, and then, after the IR of
\* the coercion steps, one setreg of the register is appended and the
\* interpretation goes on; a wider V fails the assertion and no setreg is
\* appended.
C22_PutRCCoercion ==
  [][(pc = "inst" /\ Tok(Idx) = PUT_RC) =>
       LET V == Vals[Len(Vals)]
           RegNo == getRegOp(CurrentInst, Tok(Idx + 2))
           c == coercePutRC(Cur, RegNo, V)
           typed == c.V.ty = "int" /\ c.V.w = RegBits
           old == blocks[InsertBB]
           new == blocks'[InsertBB]
           coercion == (IF V.ty = "ptr" THEN <<I("ptrtoint", 0, 0)>> ELSE <<>>)
                       \o (IF V.ty = "float" THEN <<I("bitcast", 0, 0)>> ELSE <<>>)
                       \o (IF V.ty # "ptr" /\ V.w < RegBits
                           THEN <<I("getreg", RegNo, 0), I("insertbits", RegNo, 0)>>
                           ELSE <<>>)
       IN  /\ typed <=> (V.ty = "ptr" \/ V.w <= RegBits)
           /\ IF typed
              THEN /\ pc' = "inst"
                   /\ new = old \o coercion \o <<I("setreg", RegNo, c.V.v)>>
                   /\ Vals' = SubSeq(Vals, 1, Len(Vals) - 1)
              ELSE /\ pc' = "abort"
                   /\ new = old \o coercion
                   /\ SetRegs(new) = SetRegs(old)]_vars

\* C22 witness: a floating-point value narrower than the register was
\* bitcast, inserted into the register's contents and written.
C22_Witness ==
  /\ pc = "inst"
  /\ Vals = <<>>
  /\ Tok(Idx) = END_OF_INSTRUCTION
  /\ LET b == blocks[InsertBB]
     IN  /\ Len(b) > 4
         /\ b[Len(b)].op = "setreg"
         /\ b[Len(b) - 1].op = "insertbits"
         /\ b[Len(b) - 3].op = "bitcast"

\* The integer a bit pattern of w bits stands for in two's complement.
SignedValue(v, w) == IF v >= Pow2(w - 1) THEN v - Pow2(w) ELSE v

\* C23: SMUL_LOHI and UMUL_LOHI replace their two factors by exactly two
\* results, the low half first and the high half second, each of its own
\* width; as unsigned bit patterns, hi * 2^lo_bits + lo is the product of
\* the integers the factors stand for (two's complement for SMUL_LOHI,
\* unsigned for UMUL_LOHI) modulo 2^(lo_bits + hi_bits).
C23_WideMultiply ==
  [][(pc = "inst" /\ Tok(Idx) \in {ISD_SMUL_LOHI, ISD_UMUL_LOHI}) =>
       LET signed == Tok(Idx) = ISD_SMUL_LOHI
           lo_bits == Tok(Idx + 1)
           hi_bits == Tok(Idx + 2)
           f1 == Vals[Len(Vals)]
           f2 == Vals[Len(Vals) - 1]
           a == IF signed THEN SignedValue(f1.v, f1.w) ELSE f1.v
           b == IF signed THEN SignedValue(f2.v, f2.w) ELSE f2.v
           lo == Vals'[Len(Vals') - 1]
           hi == Vals'[Len(Vals')]
       IN  /\ Len(Vals') = Len(Vals)
           /\ SubSeq(Vals', 1, Len(Vals') - 2) = SubSeq(Vals, 1, Len(Vals) - 2)
           /\ lo.ty = "int" /\ lo.w = lo_bits /\ lo.v \in 0..(Pow2(lo_bits) - 1)
           /\ hi.ty = "int" /\ hi.w = hi_bits /\ hi.v \in 0..(Pow2(hi_bits) - 1)
           /\ hi.v * Pow2(lo_bits) + lo.v = (a * b) % Pow2(lo_bits + hi_bits)
           /\ Idx' = Idx + 3
           /\ pc' = "inst"]_vars

\* C23 witness: a signed multiply of halves of unequal widths has produced
\* a negative product: both halves are all ones.
C23_Witness ==
  /\ pc = "inst"
  /\ CurrentInst.Opcode = MULSW
  /\ Tok(Idx) = END_OF_INSTRUCTION
  /\ Len(Vals) = 2
  /\ Vals[1].v = Pow2(VT_i4) - 1 /\ Vals[1].w = VT_i4
  /\ Vals[2].v = Pow2(VT_i2) - 1 /\ Vals[2].w = VT_i2

\* ------------------------------------------------------------------ C24
\* The notifications DRS received about blocks and about the function, in
\* the order it received them.
BlockNotifications ==
  SelectSeq(drsLog, LAMBDA e : e.call \in {"SwitchToBasicBlock", "FinalizeBasicBlock",
                                            "FinalizeFunction"})

\* C24: every DRS.SwitchToBasicBlock is followed by a DRS.FinalizeBasicBlock
\* before the next DRS.SwitchToBasicBlock and before DRS.FinalizeFunction:
\* DRS never has two blocks switched to without a finalize in between, and
\* none left unfinalized when the function is finalized.
C24_NotificationsAlternate ==
  LET n == BlockNotifications
  IN  \A i \in 1..(Len(n) - 1) :
        n[i].call = "SwitchToBasicBlock" => n[i + 1].call = "FinalizeBasicBlock"

\* ------------------------------------------------------------------ C25
IsPrefix(s, t) == Len(s) <= Len(t) /\ SubSeq(t, 1, Len(s)) = s

\* C25: translateInst only appends. On every step of a translateInst call
\* (the call is the steps from pc = "block" until pc leaves "inst"), whether
\* it goes on, returns true, returns false or stops on an assertion, every
\* block keeps what it held as a prefix of what it holds, the address map
\* keeps every entry and CallBBs keeps every element; on the step by which
\* translateInst returns, Vals is emptied and CurrentInst is null, and when
\* it returns false without the undef policy that step emits no trap, so
\* that the IR of the failed instruction is what the block ends with.
C25_AppendOnly ==
  [][(pc \in {"block", "inst"} /\ pc' # "idle") =>
       /\ Len(blocks') >= Len(blocks)
       /\ \A b \in 1..Len(blocks) : IsPrefix(blocks[b], blocks'[b])
       /\ \A a \in DOMAIN BBByAddr : a \in DOMAIN BBByAddr' /\ BBByAddr'[a] = BBByAddr[a]
       /\ IsPrefix(CallBBs, CallBBs')
       /\ pc' \in {"block", "failed"} => Vals' = <<>> /\ CurrentInst' = NoInst
       /\ pc' = "failed" =>
            /\ ~Success'
            /\ LET new == blocks'[InsertBB']
               IN  new[Len(new)].op \notin {"trap", "unreachable"}]_vars

\* C25 witness: translateInst returned false on an opcode with no case,
\* after the PC increment and an earlier opcode of the same instruction had
\* emitted IR: the block still ends with the start of the instruction, the
\* PC write and the register read.
C25_Witness ==
  /\ pc = "failed"
  /\ ~Success
  /\ Vals = <<>>
  /\ CurrentInst = NoInst
  /\ LET b == blocks[InsertBB]
     IN  /\ Len(b) >= 4
         /\ b[Len(b)] = I("getreg", R1, 0)
         /\ b[Len(b) - 1].op = "setreg" /\ b[Len(b) - 1].a = PC
         /\ \E i \in 1..(Len(b) - 2) : b[i].op = "startinst" /\ b[i].b = BADOP


====
